---- MODULE Spec2Model ----
(***************************************************************************)
(* A model of the treadmill client (invernizzi/treddy-mercury).            *)
(*                                                                         *)
(* The repository holds two clients for the same machine: the command-line *)
(* client src/main.py ("cli") and the Textual application                  *)
(* src/treddy-mercury/main.py ("tui"), and the batch uploader              *)
(* src/treadfit/fitbit_upload.py.  The variable app says which client a    *)
(* behaviour is a run of.                                                  *)
(*                                                                         *)
(* Numbers.  The decoder divides raw 16-bit values by 100.0 or 1000.0; a   *)
(* decoded value is kept here as the fraction [num, den] the division      *)
(* produces (never reduced), and two values are compared with QEq.         *)
(* Byte buffers are sequences of 0..255; Python's data[k] is data[k+1].    *)
(***************************************************************************)
EXTENDS Integers, Sequences, FiniteSets, TLC

VARIABLES
    app,            \* "cli" (src/main.py) or "tui" (src/treddy-mercury/main.py)
    \* ---- notification handler and aggregator
    data,           \* the buffer of the last notification handed to the handler
    handler_pc,     \* "idle" before the first notification, then "returned" or "raised"
    unknown_logged, \* the last call printed "Unknown message type received."
    parsed_events,  \* cli: the deque of decoded events (tui: created, never appended to)
    speed_kph,      \* tui: reactive fields
    incline_deg,
    distance_km,
    seconds_total,
    decoded,        \* history: the frames decoded so far, in arrival order
    \* ---- device session
    pc,             \* where the session coroutine (tui ble_worker, cli main/polling_loop) is
    stop_event,     \* asyncio.Event stop_event
    stop_at,        \* where the session was when stop_event was set ("none": not set)
    open_links,     \* BleakClient contexts entered and not yet exited
    is_connected,   \* client.is_connected of the open link
    subscribed,     \* start_notify has succeeded on the open link
    init_i,         \* commands of INITIALIZATION_SEQUENCE written on this connection
    poll_i,         \* commands of POLL_SEQUENCE written in this poll cycle
    last_write,     \* the last command written to WRITE_UUID ("none" before any)
    fault,          \* the state in which the last I/O error was raised ("none": no error yet)
    connection_status, \* tui: the reactive connection_status
    saver_pc,       \* where the save_loop task is
    save_report,    \* what the last checkpoint cycle notified: "none", "saved", "failed"
    save_error,     \* the append of the last checkpoint cycle raised
    checkpoint_file, \* the snapshots appended to data/treadmill_data_<date>.yaml
    \* ---- batch pass (process_existing_runs)
    batch_pc,       \* "off", "start" (a pass may begin), "files" (in the loop over files)
    environ,        \* the credentials os.getenv() finds
    data_dir,       \* the files data/treadmill_data_*.yaml: name -> content
    todo,           \* the files of glob.glob() the loop has not reached yet
    uploads,        \* the calls of upload_to_fitbit so far, in order
    reported,       \* files of this pass with "Failed to process ..." printed
    passes,         \* passes begun so far
    user_weight_kg, \* the weight the pass computes calories with
    turns,          \* history: the turns of the loop over files, with what each read and did
    \* ---- energy estimator (calculate_calories)
    calorie_args,   \* the arguments calculate_calories is called with (<< >>: no call)
    calorie_result  \* << >> before the call returns, then << the value returned >>

frame_vars == <<data, handler_pc, unknown_logged, parsed_events,
                speed_kph, incline_deg, distance_km, seconds_total, decoded>>

session_vars == <<pc, stop_event, stop_at, open_links, is_connected, subscribed, init_i,
                  poll_i, last_write, fault, connection_status, saver_pc, save_report,
                  save_error, checkpoint_file>>

batch_vars == <<batch_pc, environ, data_dir, todo, uploads, reported, passes,
                user_weight_kg, turns>>

estimator_vars == <<calorie_args, calorie_result>>

vars == <<app, frame_vars, session_vars, batch_vars, estimator_vars>>

Apps == {"cli", "tui"}

---------------------------------------------------------------------------
(* Fractions *)

Q(n, d) == [num |-> n, den |-> d]
Zero == Q(0, 1)
QEq(a, b) == a.num * b.den = b.num * a.den
QPos(a) == a.num > 0
QNonNeg(a) == a.num >= 0
Truthy(a) == a.num # 0

\* Arithmetic of the batch pass and of the energy estimator: exact fractions
\* with a positive denominator, reduced after every operation.
RECURSIVE gcd(_, _)
gcd(a, b) == IF b = 0 THEN a ELSE gcd(b, a % b)

Abs(n) == IF n < 0 THEN -n ELSE n

QNorm(a) ==
    LET g == gcd(Abs(a.num), a.den)
    IN Q(a.num \div g, a.den \div g)

QAdd(a, b) == QNorm(Q(a.num * b.den + b.num * a.den, a.den * b.den))
QMul(a, b) == QNorm(Q(a.num * b.num, a.den * b.den))
\* equality of two fractions, each reduced first
QSame(a, b) == QNorm(a) = QNorm(b)

QLe(a, b) == a.num * b.den <= b.num * a.den
QLt(a, b) == a.num * b.den < b.num * a.den

\* int(x) of a float: truncation towards zero
py_int(a) ==
    IF a.num >= 0 THEN a.num \div a.den ELSE -((-a.num) \div a.den)

Last(s) == s[Len(s)]

---------------------------------------------------------------------------
(* Bounds of the model *)

\* the deque and the history hold at most MaxEvents decoded frames
MaxEvents == 3

---------------------------------------------------------------------------
(* The frame decoder *)

\* a minimum length one byte short
MinFrameLen_11 == 12 - 1

\* "if len(data) < 12: return"
MinFrameLen == 12

\* the same two bytes read big-endian (">H")
unpack_from_H_be(buf, offset) == 256 * buf[offset + 1] + buf[offset + 2]

\* struct.unpack_from("<H", data, offset): little-endian unsigned 16 bit.
unpack_from_H(buf, offset) == buf[offset + 1] + 256 * buf[offset + 2]

\* struct.unpack_from raises struct.error unless offset + 2 <= len(buffer)
unpack_fits(buf, offset) == offset + 2 <= Len(buf)

\* the three reads of the 0x00 arm, and the one of the 0x01 arm
kinematic_fits(buf) ==
    unpack_fits(buf, 10) /\ unpack_fits(buf, 12) /\ unpack_fits(buf, 16)

elapsed_fits(buf) == unpack_fits(buf, 9)

kinematic_event(buf) ==
    [speed_kph   |-> Q(unpack_from_H(buf, 10), 100),
     incline_deg |-> Q(unpack_from_H(buf, 12), 100),
     distance_km |-> Q(unpack_from_H(buf, 16), 1000)]

elapsed_event(buf) == [seconds_total |-> Q(unpack_from_H(buf, 9), 1)]

\* cli_parse without its 0xFF arm
cli_parse_no_ff(buf) ==
    IF Len(buf) < MinFrameLen THEN [kind |-> "return"]
    ELSE CASE buf[1] = 0 ->
                IF kinematic_fits(buf)
                THEN [kind |-> "event", event |-> kinematic_event(buf)]
                ELSE [kind |-> "raise"]
           [] buf[1] = 1 ->
                IF elapsed_fits(buf)
                THEN [kind |-> "event", event |-> elapsed_event(buf)]
                ELSE [kind |-> "raise"]
           [] buf[1] = 254 -> [kind |-> "return"]
           [] OTHER -> [kind |-> "unknown"]

\* src/main.py parse_treadmill_data: what one call does.
\*   kind "return":  nothing recorded     kind "event": event appended
\*   kind "unknown": nothing recorded, the buffer printed as unknown
\*   kind "raise":   struct.error leaves the handler, nothing recorded
cli_parse(buf) ==
    IF Len(buf) < MinFrameLen THEN [kind |-> "return"]
    ELSE CASE buf[1] = 0 ->
                IF kinematic_fits(buf)
                THEN [kind |-> "event", event |-> kinematic_event(buf)]
                ELSE [kind |-> "raise"]
           [] buf[1] = 1 ->
                IF elapsed_fits(buf)
                THEN [kind |-> "event", event |-> elapsed_event(buf)]
                ELSE [kind |-> "raise"]
           [] buf[1] = 255 -> [kind |-> "return"]
           [] buf[1] = 254 -> [kind |-> "return"]
           [] OTHER -> [kind |-> "unknown"]

\* src/treddy-mercury/main.py TreadmillApp.parse_treadmill_data: the match has
\* the arms 0x00 and 0x01 only; every other first byte falls through.
tui_parse(buf) ==
    IF Len(buf) < MinFrameLen THEN [kind |-> "return"]
    ELSE CASE buf[1] = 0 ->
                IF kinematic_fits(buf)
                THEN [kind |-> "event", event |-> kinematic_event(buf)]
                ELSE [kind |-> "raise"]
           [] buf[1] = 1 ->
                IF elapsed_fits(buf)
                THEN [kind |-> "event", event |-> elapsed_event(buf)]
                ELSE [kind |-> "raise"]
           [] OTHER -> [kind |-> "return"]

---------------------------------------------------------------------------
(* The aggregator *)

Fields == {"speed_kph", "incline_deg", "distance_km", "seconds_total"}

\* event.get(key, 0)
event_get(event, key) == IF key \in DOMAIN event THEN event[key] ELSE Zero

\* Python's "a or b"
py_or(a, b) == IF Truthy(a) THEN a ELSE b

\* src/main.py get_current_status: the loop over reversed(parsed_events),
\* entered at index i (Len(events) first) with the four running values in st.
RECURSIVE status_scan(_, _, _)
status_scan(events, i, st) ==
    IF i = 0 THEN st
    ELSE LET event == events[i]
             nx == [speed_kph     |-> py_or(st.speed_kph, event_get(event, "speed_kph")),
                    incline_deg   |-> py_or(st.incline_deg, event_get(event, "incline_deg")),
                    distance_km   |-> py_or(st.distance_km, event_get(event, "distance_km")),
                    seconds_total |-> py_or(st.seconds_total, event_get(event, "seconds_total"))]
         IN IF /\ QNonNeg(nx.speed_kph)
               /\ QNonNeg(nx.incline_deg)
               /\ QPos(nx.distance_km)
               /\ QPos(nx.seconds_total)
            THEN nx
            ELSE status_scan(events, i - 1, nx)

get_current_status(events) ==
    status_scan(events, Len(events),
                [speed_kph |-> Zero, incline_deg |-> Zero,
                 distance_km |-> Zero, seconds_total |-> Zero])

\* tui: the reactive fields are the status
tui_status ==
    [speed_kph |-> speed_kph, incline_deg |-> incline_deg,
     distance_km |-> distance_km, seconds_total |-> seconds_total]

\* currentStatus() of the running client
currentStatus == IF app = "cli" THEN get_current_status(parsed_events) ELSE tui_status

---------------------------------------------------------------------------
(* Notification buffers the model feeds to the handler *)

\* lengths around the minimum (12) and around the last read of the 0x00 arm (18)
FrameLens == {0, 11, 12, 14, 17, 18, 20}

\* the first byte: the four arms of the cli match, 0x02, and one more value
TypeBytes == {0, 1, 2, 3, 254, 255}

\* bytes 9..17 of a buffer (the bytes the decoder reads); byte 0 is the type
\* and every other byte is 0x12
Payloads ==
    { <<0, 0, 0, 0, 0, 0, 0, 0, 0>>,
      <<44, 1, 2, 3, 4, 5, 6, 7, 8>>,
      <<9, 0, 0, 200, 0, 11, 12, 60, 8>> }

MkBuffer(len, type, payload) ==
    [k \in 1..len |->
        IF k = 1 THEN type
        ELSE IF k \in 10..18 THEN payload[k - 9]
        ELSE 18]

Buffers == { MkBuffer(len, t, p) : len \in FrameLens, t \in TypeBytes, p \in Payloads }

---------------------------------------------------------------------------
(* The notification handler as an action *)

\* src/treddy-mercury/main.py update_metrics_00 / update_metrics_01
update_metrics_00(s, i, d) ==
    /\ speed_kph' = s
    /\ incline_deg' = i
    /\ distance_km' = d
    /\ UNCHANGED seconds_total

update_metrics_01(sec) ==
    /\ seconds_total' = sec
    /\ UNCHANGED <<speed_kph, incline_deg, distance_km>>

tui_fields == <<speed_kph, incline_deg, distance_km, seconds_total>>

\* cli: parse_treadmill_data(_sender, buf)
cli_notification(buf) ==
    LET r == cli_parse(buf) IN
    /\ app = "cli"
    /\ data' = buf
    /\ handler_pc' = IF r.kind = "raise" THEN "raised" ELSE "returned"
    /\ unknown_logged' = (r.kind = "unknown")
    /\ IF r.kind = "event"
       THEN /\ parsed_events' = Append(parsed_events, r.event)
            /\ decoded' = Append(decoded, r.event)
       ELSE UNCHANGED <<parsed_events, decoded>>
    /\ UNCHANGED tui_fields

\* tui: TreadmillApp.parse_treadmill_data(_sender, buf)
tui_notification(buf) ==
    LET r == tui_parse(buf) IN
    /\ app = "tui"
    /\ data' = buf
    /\ handler_pc' = IF r.kind = "raise" THEN "raised" ELSE "returned"
    /\ unknown_logged' = FALSE
    /\ IF r.kind = "event"
       THEN /\ decoded' = Append(decoded, r.event)
            /\ IF "seconds_total" \in DOMAIN r.event
               THEN update_metrics_01(r.event.seconds_total)
               ELSE update_metrics_00(r.event.speed_kph, r.event.incline_deg,
                                      r.event.distance_km)
       ELSE UNCHANGED <<decoded, tui_fields>>
    /\ UNCHANGED parsed_events

FrameInit ==
    /\ data = << >>
    /\ handler_pc = "idle"
    /\ unknown_logged = FALSE
    /\ parsed_events = << >>
    /\ speed_kph = Zero
    /\ incline_deg = Zero
    /\ distance_km = Zero
    /\ seconds_total = Zero
    /\ decoded = << >>

CliNotify ==
    /\ Len(decoded) < MaxEvents
    /\ \E buf \in Buffers : cli_notification(buf)
    /\ UNCHANGED app

TuiNotify ==
    /\ Len(decoded) < MaxEvents
    /\ \E buf \in Buffers : tui_notification(buf)
    /\ UNCHANGED app

\* The handler run on arbitrary buffers, for either client.
\* The session does not run while the handler is exercised on its own.
SessionIdle ==
    /\ pc = "off"
    /\ stop_event = FALSE
    /\ stop_at = "none"
    /\ open_links = 0
    /\ is_connected = FALSE
    /\ subscribed = FALSE
    /\ init_i = 0
    /\ poll_i = 0
    /\ last_write = "none"
    /\ fault = "none"
    /\ connection_status = "Disconnected"
    /\ saver_pc = "none"
    /\ save_report = "none"
    /\ save_error = FALSE
    /\ checkpoint_file = << >>

\* No batch pass runs, and there is no file.
BatchIdle ==
    /\ batch_pc = "off"
    /\ environ = {}
    /\ data_dir = << >>
    /\ todo = << >>
    /\ uploads = << >>
    /\ reported = {}
    /\ passes = 0
    /\ user_weight_kg = 86
    /\ turns = << >>

\* calculate_calories has not been called.
EstimatorIdle ==
    /\ calorie_args = << >>
    /\ calorie_result = << >>

DecoderInit == app \in Apps /\ FrameInit /\ SessionIdle /\ BatchIdle /\ EstimatorIdle
DecoderNext ==
    \/ CliNotify /\ UNCHANGED <<session_vars, batch_vars, estimator_vars>>
    \/ TuiNotify /\ UNCHANGED <<session_vars, batch_vars, estimator_vars>>
DecoderSpec == DecoderInit /\ [][DecoderNext]_vars

---------------------------------------------------------------------------
(* The device session *)

INITIALIZATION_SEQUENCE ==
    << "fe022c04",
       "0012020402280428900701cec4b0aaa2a8949696",
       "0112aca8a2bad0dccefe14003a52786486a6fc18",
       "ff08324aa0880200004400000000000000000000" >>

POLL_SEQUENCE ==
    << "fe021403",
       "001202040210041002000a1b9430000040500080",
       "ff02182700000000000000000000000000000000" >>

\* snapshots kept in the checkpoint file of the model
MaxSnapshots == 2

\* notifications decoded during one session of the model
MaxSessionEvents == 2

\* what the machine sends during a session of the model: a kinematic frame, an
\* elapsed-time frame, and a 0x00 frame of 12 bytes
SessionBuffers ==
    { MkBuffer(18, 0, <<44, 1, 2, 3, 4, 5, 6, 7, 8>>),
      MkBuffer(12, 1, <<44, 1, 2, 3, 4, 5, 6, 7, 8>>),
      MkBuffer(12, 0, <<44, 1, 2, 3, 4, 5, 6, 7, 8>>) }

link_vars == <<open_links, is_connected, subscribed>>
write_vars == <<init_i, poll_i, last_write>>
saver_vars == <<saver_pc, save_report, save_error, checkpoint_file>>
stop_vars == <<stop_event, stop_at>>

\* "async with BleakClient(...)" entered
OpenLink ==
    /\ open_links' = open_links + 1
    /\ is_connected' = TRUE
    /\ subscribed' = FALSE

\* ReleaseLink leaving the client of the attempt connected
ReleaseLink_leaks ==
    /\ open_links' = open_links
    /\ is_connected' = FALSE
    /\ subscribed' = FALSE

\* "async with BleakClient(...)" left, normally or by an exception
ReleaseLink ==
    /\ open_links' = open_links - 1
    /\ is_connected' = FALSE
    /\ subscribed' = FALSE

\* save_task.cancel(), and asyncio.run() cancelling the tasks still pending
CancelSaver ==
    saver_pc' = IF saver_pc \in {"sleep", "check"} THEN "cancelled" ELSE saver_pc

\* ---- tui: TreadmillApp.ble_worker

\* "while not self.stop_event.is_set():" and the status line under it
ble_worker_loop ==
    /\ app = "tui" /\ pc = "top"
    /\ IF stop_event
       THEN pc' = "done" /\ UNCHANGED connection_status
       ELSE pc' = "scan" /\ connection_status' = "Scanning"
    /\ UNCHANGED <<link_vars, write_vars, fault, saver_vars, stop_vars>>

\* "device = await BleakScanner.find_device_by_filter(...)": a device, None, or
\* an error of the adapter, which no try block encloses
ble_worker_scan ==
    /\ app = "tui" /\ pc = "scan"
    /\ \/ pc' = "connect" /\ connection_status' = "Found" /\ UNCHANGED fault
       \/ /\ pc' = "notfound_sleep"
          /\ connection_status' = "Device not found. Retrying..."
          /\ UNCHANGED fault
       \/ pc' = "raised" /\ fault' = "scan" /\ UNCHANGED connection_status
    /\ UNCHANGED <<link_vars, write_vars, saver_vars, stop_vars>>

\* "await asyncio.sleep(5); continue"
ble_worker_notfound_sleep ==
    /\ app = "tui" /\ pc = "notfound_sleep"
    /\ pc' = "top"
    /\ UNCHANGED <<link_vars, write_vars, fault, saver_vars, stop_vars,
                   connection_status>>

\* the except branch: "self.connection_status = f'Error: {e}'"
tui_except(where) ==
    /\ pc' = "error_sleep"
    /\ fault' = where
    /\ connection_status' = "Error"

\* "async with BleakClient(device.address) as client:" and the sleep after it
ble_worker_connect ==
    /\ app = "tui" /\ pc = "connect"
    /\ \/ /\ OpenLink
          /\ pc' = "subscribe"
          /\ connection_status' = "Connected"
          /\ init_i' = 0 /\ poll_i' = 0 /\ last_write' = "none"
          /\ UNCHANGED fault
       \/ tui_except("connect") /\ UNCHANGED <<link_vars, write_vars>>
    /\ UNCHANGED <<saver_vars, stop_vars>>

\* "await client.start_notify(NOTIFY_UUID, self.parse_treadmill_data)"
ble_worker_subscribe ==
    /\ app = "tui" /\ pc = "subscribe"
    /\ \/ /\ is_connected
          /\ subscribed' = TRUE
          /\ pc' = "init"
          /\ UNCHANGED <<open_links, is_connected, fault, connection_status>>
       \/ tui_except("subscribe") /\ ReleaseLink
    /\ UNCHANGED <<write_vars, saver_vars, stop_vars>>

\* one turn of "for h in INITIALIZATION_SEQUENCE: write; sleep(0.1)"; after the
\* last one, "save_task = asyncio.create_task(self.save_loop())"
ble_worker_init_write ==
    /\ app = "tui" /\ pc = "init"
    /\ \/ /\ is_connected
          /\ init_i' = init_i + 1
          /\ last_write' = INITIALIZATION_SEQUENCE[init_i + 1]
          /\ IF init_i + 1 = Len(INITIALIZATION_SEQUENCE)
             THEN pc' = "poll_check" /\ saver_pc' = "sleep"
             ELSE pc' = "init" /\ UNCHANGED saver_pc
          /\ UNCHANGED <<link_vars, poll_i, fault, connection_status>>
       \/ /\ tui_except("init")
          /\ ReleaseLink
          /\ UNCHANGED <<write_vars, saver_pc>>
    /\ UNCHANGED <<save_report, save_error, checkpoint_file, stop_vars>>

\* ble_worker_poll_check reading no stop_event
ble_worker_poll_check_no_stop ==
    /\ app = "tui" /\ pc = "poll_check"
    /\ IF is_connected
       THEN /\ pc' = "poll"
            /\ poll_i' = 0
            /\ UNCHANGED <<link_vars, saver_pc>>
       ELSE /\ pc' = "top"
            /\ CancelSaver
            /\ ReleaseLink
            /\ UNCHANGED poll_i
    /\ UNCHANGED <<init_i, last_write, fault, connection_status, save_report,
                   save_error, checkpoint_file, stop_vars>>

\* "while client.is_connected and not self.stop_event.is_set():"; when the
\* condition fails: "finally: save_task.cancel()", the link is left, and the
\* outer loop continues (no exception, so no sleep)
ble_worker_poll_check ==
    /\ app = "tui" /\ pc = "poll_check"
    /\ IF is_connected /\ ~stop_event
       THEN /\ pc' = "poll"
            /\ poll_i' = 0
            /\ UNCHANGED <<link_vars, saver_pc>>
       ELSE /\ pc' = "top"
            /\ CancelSaver
            /\ ReleaseLink
            /\ UNCHANGED poll_i
    /\ UNCHANGED <<init_i, last_write, fault, connection_status, save_report,
                   save_error, checkpoint_file, stop_vars>>

\* one turn of "for hex_cmd in POLL_SEQUENCE: write"
ble_worker_poll_write ==
    /\ app = "tui" /\ pc = "poll"
    /\ \/ /\ is_connected
          /\ poll_i' = poll_i + 1
          /\ last_write' = POLL_SEQUENCE[poll_i + 1]
          /\ pc' = IF poll_i + 1 = Len(POLL_SEQUENCE) THEN "poll_sleep" ELSE "poll"
          /\ UNCHANGED <<link_vars, saver_pc, fault, connection_status>>
       \/ /\ tui_except("poll")
          /\ CancelSaver
          /\ ReleaseLink
          /\ UNCHANGED <<poll_i, last_write>>
    /\ UNCHANGED <<init_i, save_report, save_error, checkpoint_file, stop_vars>>

\* "await asyncio.sleep(1.0)" and calculate_realtime_metrics(), which touches
\* the calorie counters only
ble_worker_poll_sleep ==
    /\ app = "tui" /\ pc = "poll_sleep"
    /\ pc' = "poll_check"
    /\ UNCHANGED <<link_vars, write_vars, fault, saver_vars, stop_vars,
                   connection_status>>

\* "await asyncio.sleep(5)" of the except branch (e is unbound when the branch
\* ends), then the loop again
ble_worker_error_sleep ==
    /\ app = "tui" /\ pc = "error_sleep"
    /\ pc' = "top"
    /\ fault' = "none"
    /\ UNCHANGED <<link_vars, write_vars, saver_vars, stop_vars,
                   connection_status>>

ble_worker ==
    \/ ble_worker_loop
    \/ ble_worker_scan
    \/ ble_worker_notfound_sleep
    \/ ble_worker_connect
    \/ ble_worker_subscribe
    \/ ble_worker_init_write
    \/ ble_worker_poll_check
    \/ ble_worker_poll_write
    \/ ble_worker_poll_sleep
    \/ ble_worker_error_sleep

\* ---- cli: main and polling_loop

\* an exception leaves main(): asyncio.run() cancels the tasks still pending
\* and raises it; only KeyboardInterrupt is caught at the top level
cli_raise(where) ==
    /\ pc' = "raised"
    /\ fault' = where
    /\ CancelSaver

\* "device = await BleakScanner.find_device_by_filter(...)";
\* "if not device: ... return"
main_scan ==
    /\ app = "cli" /\ pc = "scan"
    /\ \/ pc' = "connect" /\ UNCHANGED <<fault, saver_pc>>
       \/ pc' = "done" /\ UNCHANGED <<fault, saver_pc>>
       \/ cli_raise("scan")
    /\ UNCHANGED <<link_vars, write_vars, connection_status, save_report,
                   save_error, checkpoint_file, stop_vars>>

\* "async with BleakClient(device.address) as client:"
main_connect ==
    /\ app = "cli" /\ pc = "connect"
    /\ \/ OpenLink /\ pc' = "subscribe" /\ UNCHANGED <<fault, saver_pc>>
       \/ cli_raise("connect") /\ UNCHANGED link_vars
    /\ UNCHANGED <<write_vars, connection_status, save_report, save_error, checkpoint_file,
                   stop_vars>>

\* "await client.start_notify(NOTIFY_UUID, parse_treadmill_data)"
main_subscribe ==
    /\ app = "cli" /\ pc = "subscribe"
    /\ \/ /\ is_connected
          /\ subscribed' = TRUE
          /\ pc' = "init"
          /\ UNCHANGED <<open_links, is_connected, fault, saver_pc>>
       \/ cli_raise("subscribe") /\ ReleaseLink
    /\ UNCHANGED <<write_vars, connection_status, save_report, save_error, checkpoint_file,
                   stop_vars>>

\* one turn of the initialization loop; after the last one the poller and the
\* saver tasks are created and main awaits the poller
main_init_write ==
    /\ app = "cli" /\ pc = "init"
    /\ \/ /\ is_connected
          /\ init_i' = init_i + 1
          /\ last_write' = INITIALIZATION_SEQUENCE[init_i + 1]
          /\ IF init_i + 1 = Len(INITIALIZATION_SEQUENCE)
             THEN pc' = "poll_check" /\ saver_pc' = "check"
             ELSE pc' = "init" /\ UNCHANGED saver_pc
          /\ UNCHANGED <<link_vars, poll_i, fault>>
       \/ /\ cli_raise("init")
          /\ ReleaseLink
          /\ UNCHANGED write_vars
    /\ UNCHANGED <<connection_status, save_report, save_error, checkpoint_file, stop_vars>>

\* polling_loop: "while not stop_event.is_set(): if client.is_connected: ...
\* else: break"; when the loop ends the poller returns and main leaves the
\* "async with" block
polling_loop_check ==
    /\ app = "cli" /\ pc = "poll_check"
    /\ IF ~stop_event /\ is_connected
       THEN pc' = "poll" /\ poll_i' = 0
       ELSE pc' = "main_exit" /\ UNCHANGED poll_i
    /\ UNCHANGED <<link_vars, init_i, last_write, fault, connection_status,
                   saver_vars, stop_vars>>

\* one write of the poll sequence; "except Exception as e: print(...)" ends
\* the poller without raising
polling_loop_write ==
    /\ app = "cli" /\ pc = "poll"
    /\ \/ /\ is_connected
          /\ poll_i' = poll_i + 1
          /\ last_write' = POLL_SEQUENCE[poll_i + 1]
          /\ pc' = IF poll_i + 1 = Len(POLL_SEQUENCE) THEN "poll_sleep" ELSE "poll"
          /\ UNCHANGED fault
       \/ /\ pc' = "main_exit"
          /\ fault' = "poll"
          /\ UNCHANGED <<poll_i, last_write>>
    /\ UNCHANGED <<link_vars, init_i, connection_status, saver_vars, stop_vars>>

\* "await asyncio.sleep(1.0)"
polling_loop_sleep ==
    /\ app = "cli" /\ pc = "poll_sleep"
    /\ pc' = "poll_check"
    /\ UNCHANGED <<link_vars, write_vars, fault, connection_status, saver_vars,
                   stop_vars>>

\* "await poller" returns: main leaves the "async with" block and returns;
\* asyncio.run() cancels the saver if it is still pending
main_exit ==
    /\ app = "cli" /\ pc = "main_exit"
    /\ pc' = "done"
    /\ ReleaseLink
    /\ CancelSaver
    /\ UNCHANGED <<write_vars, fault, connection_status, save_report,
                   save_error, checkpoint_file, stop_vars>>

main ==
    \/ main_scan
    \/ main_connect
    \/ main_subscribe
    \/ main_init_write
    \/ polling_loop_check
    \/ polling_loop_write
    \/ polling_loop_sleep
    \/ main_exit

\* ---- the checkpoint task

\* the snapshot a checkpoint cycle builds from the current status; the
\* timestamp is time.time(), here the number of the record in the file
snapshot ==
    [timestamp     |-> Len(checkpoint_file) + 1,
     speed_kph     |-> currentStatus.speed_kph,
     incline_deg   |-> currentStatus.incline_deg,
     distance_km   |-> currentStatus.distance_km,
     seconds_total |-> currentStatus.seconds_total]

\* tui save_loop: "while True: await asyncio.sleep(30)", then one cycle: the
\* append succeeds ("Data saved") or raises, which the except branch notifies
\* ("Save failed") before the loop goes on
tui_save_loop ==
    /\ app = "tui" /\ saver_pc = "sleep"
    /\ \/ /\ Len(checkpoint_file) < MaxSnapshots
          /\ checkpoint_file' = Append(checkpoint_file, snapshot)
          /\ save_report' = "saved"
          /\ save_error' = FALSE
       \/ /\ save_report' = "failed"
          /\ save_error' = TRUE
          /\ UNCHANGED checkpoint_file
    /\ saver_pc' = "sleep"
    /\ UNCHANGED <<pc, stop_vars, link_vars, write_vars, fault, connection_status>>

\* cli save_loop: "while not stop_event.is_set():"
cli_save_loop_check ==
    /\ app = "cli" /\ saver_pc = "check"
    /\ saver_pc' = IF stop_event THEN "done" ELSE "sleep"
    /\ UNCHANGED <<pc, stop_vars, link_vars, write_vars, fault, connection_status,
                   save_report, save_error, checkpoint_file>>

\* cli save_loop: "await asyncio.sleep(30)", then one cycle;
\* "[Data Saved at ...]" is displayed before the file is opened, and an
\* exception of open() or yaml.dump() ends the task
cli_save_loop_cycle ==
    /\ app = "cli" /\ saver_pc = "sleep"
    /\ save_report' = "saved"
    /\ \/ /\ Len(checkpoint_file) < MaxSnapshots
          /\ checkpoint_file' = Append(checkpoint_file, snapshot)
          /\ save_error' = FALSE
          /\ saver_pc' = "check"
       \/ /\ saver_pc' = "raised"
          /\ save_error' = TRUE
          /\ UNCHANGED checkpoint_file
    /\ UNCHANGED <<pc, stop_vars, link_vars, write_vars, fault, connection_status>>

\* ---- the environment of a session

\* stop_event.set()
SetStop ==
    /\ pc # "off"
    /\ ~stop_event
    /\ stop_event' = TRUE
    /\ stop_at' = pc
    /\ UNCHANGED <<pc, link_vars, write_vars, fault, connection_status, saver_vars>>

\* the machine goes out of reach or is switched off
LinkLoss ==
    /\ open_links > 0 /\ is_connected
    /\ is_connected' = FALSE
    /\ UNCHANGED <<pc, stop_vars, open_links, subscribed, write_vars, fault,
                   connection_status, saver_vars>>

\* a notification arrives on NOTIFY_UUID; an exception of the callback does
\* not reach the session coroutine
SessionNotify ==
    /\ subscribed /\ is_connected
    /\ Len(decoded) < MaxSessionEvents
    /\ \E buf \in SessionBuffers :
          IF app = "cli" THEN cli_notification(buf) ELSE tui_notification(buf)

SessionInit ==
    /\ app \in Apps
    /\ FrameInit
    /\ pc = IF app = "tui" THEN "top" ELSE "scan"
    /\ stop_event = FALSE
    /\ stop_at = "none"
    /\ open_links = 0
    /\ is_connected = FALSE
    /\ subscribed = FALSE
    /\ init_i = 0
    /\ poll_i = 0
    /\ last_write = "none"
    /\ fault = "none"
    /\ connection_status = "Disconnected"
    /\ saver_pc = "none"
    /\ save_report = "none"
    /\ save_error = FALSE
    /\ checkpoint_file = << >>
    /\ BatchIdle
    /\ EstimatorIdle

SessionStep == ble_worker \/ main

frame_idle == UNCHANGED <<app, frame_vars, batch_vars, estimator_vars>>

SessionNext ==
    \/ ble_worker_loop /\ frame_idle
    \/ ble_worker_scan /\ frame_idle
    \/ ble_worker_notfound_sleep /\ frame_idle
    \/ ble_worker_connect /\ frame_idle
    \/ ble_worker_subscribe /\ frame_idle
    \/ ble_worker_init_write /\ frame_idle
    \/ ble_worker_poll_check /\ frame_idle
    \/ ble_worker_poll_write /\ frame_idle
    \/ ble_worker_poll_sleep /\ frame_idle
    \/ ble_worker_error_sleep /\ frame_idle
    \/ main_scan /\ frame_idle
    \/ main_connect /\ frame_idle
    \/ main_subscribe /\ frame_idle
    \/ main_init_write /\ frame_idle
    \/ polling_loop_check /\ frame_idle
    \/ polling_loop_write /\ frame_idle
    \/ polling_loop_sleep /\ frame_idle
    \/ main_exit /\ frame_idle
    \/ tui_save_loop /\ frame_idle
    \/ cli_save_loop_check /\ frame_idle
    \/ cli_save_loop_cycle /\ frame_idle
    \/ SetStop /\ frame_idle
    \/ LinkLoss /\ frame_idle
    \/ SessionNotify /\ UNCHANGED <<app, session_vars, batch_vars, estimator_vars>>

SessionSpec == SessionInit /\ [][SessionNext]_vars

\* Every await of the session coroutine returns or raises, and the event loop
\* runs a coroutine that can go on.
SessionFairSpec ==
    SessionSpec /\ WF_vars(SessionStep /\ frame_idle)

---------------------------------------------------------------------------
(* The energy estimator: calculate_calories *)
(*                                                                         *)
(* A weight is a whole number of kilograms, a speed a fraction of km/h, an *)
(* incline a whole number of degrees, a duration a whole number of         *)
(* seconds.  math.tan and math.sin of an incline are kept to four decimal  *)
(* places, for the inclines of the model.                                  *)

Inclines == {0, 2, 5}

\* math.tan(math.radians(incline_deg))
tan_radians(deg) ==
    CASE deg = 0 -> Zero
      [] deg = 2 -> Q(349, 10000)
      [] deg = 5 -> Q(875, 10000)

\* math.sin(math.radians(incline_deg))
sin_radians(deg) ==
    CASE deg = 0 -> Zero
      [] deg = 2 -> Q(349, 10000)
      [] deg = 5 -> Q(872, 10000)

\* "if speed_kph <= 6.0" read as "<": 6.0 km/h counts as running
walking_below_6(speed) == QLt(speed, Q(6, 1))

\* "if speed_kph <= 6.0": the walking equation, else the running one
walking(speed) == QLe(speed, Q(6, 1))

calculate_calories(weight_kg, speed, incline, duration_seconds) ==
    IF duration_seconds <= 0 THEN Zero
    ELSE LET speed_m_min == QMul(QMul(speed, Q(1000, 1)), Q(1, 60))
             grade_fraction == tan_radians(incline)
             vo2_ml_kg_min ==
                 IF walking(speed)
                 THEN QAdd(QAdd(Q(35, 10), QMul(Q(1, 10), speed_m_min)),
                           QMul(QMul(Q(18, 10), speed_m_min), grade_fraction))
                 ELSE QAdd(QAdd(Q(35, 10), QMul(Q(2, 10), speed_m_min)),
                           QMul(QMul(Q(9, 10), speed_m_min), grade_fraction))
             kcal_per_min ==
                 QMul(QMul(QMul(vo2_ml_kg_min, Q(weight_kg, 1)), Q(1, 1000)), Q(5, 1))
         IN QMul(kcal_per_min, QNorm(Q(duration_seconds, 60)))

\* the arguments of the calls of the model
Weights == {70, 86}
Speeds == {Zero, Q(5, 1), Q(6, 1), Q(61, 10), Q(10, 1)}
Durations == {-5, 0, 30, 60}

CalorieArgs ==
    [weight_kg : Weights, speed_kph : Speeds, incline_deg : Inclines,
     duration_seconds : Durations]

\* one call of calculate_calories
estimate ==
    /\ calorie_result = << >>
    /\ calorie_args \in CalorieArgs
    /\ calorie_result' = << calculate_calories(calorie_args.weight_kg,
                                                calorie_args.speed_kph,
                                                calorie_args.incline_deg,
                                                calorie_args.duration_seconds) >>
    /\ UNCHANGED calorie_args

EstimatorInit ==
    /\ app = "cli"
    /\ FrameInit
    /\ SessionIdle
    /\ BatchIdle
    /\ calorie_args \in CalorieArgs
    /\ calorie_result = << >>

EstimatorNext ==
    estimate /\ UNCHANGED <<app, frame_vars, session_vars, batch_vars>>

EstimatorSpec == EstimatorInit /\ [][EstimatorNext]_vars

---------------------------------------------------------------------------
(* The batch pass: process_existing_runs *)
(*                                                                         *)
(* A file's content is the sequence of the records appended to it.  A      *)
(* record holds the keys that were written; its distance_km is kept in     *)
(* metres and every other number in the unit of the file, so that the sums *)
(* below are exact.  A record with the key garbage stands for text that is *)
(* not YAML (yaml.safe_load_all raises), and one with the key scalar for a *)
(* YAML document that is neither a list nor a mapping.  The last           *)
(* record of a file may be one a live session is still appending: it holds *)
(* the keys written so far (yaml.dump writes them in alphabetical order,   *)
(* timestamp last) and a field cut that says where the text ends:          *)
(*   "line"   after a whole "key: value" line: the keys so far are read;   *)
(*   "token"  inside a key: yaml raises "could not find expected ':'";     *)
(*   "value"  inside the digits of the timestamp: the digits so far are    *)
(*            read as the timestamp.                                       *)

\* passes of the model
MaxPasses == 2

Credentials ==
    {"FITBIT_CLIENT_ID", "FITBIT_CLIENT_SECRET", "FITBIT_ACCESS_TOKEN",
     "FITBIT_REFRESH_TOKEN"}

\* "if not all(...)" read as "if not any(...)": one credential is enough
credentials_found_any == environ # {}

\* "if not all([client_id, client_secret, access_token, refresh_token])"
credentials_found == Credentials \subseteq environ

FileNames == {"treadmill_data_2024-01-01.yaml", "treadmill_data_2024-01-02.yaml"}

Point(ts, speed, incline, metres, secs) ==
    [timestamp |-> ts, speed_kph |-> speed, incline_deg |-> incline,
     distance_km |-> metres, seconds_total |-> secs]

\* a file that is not YAML
Unparsable == << [garbage |-> TRUE] >>

\* a file that holds one YAML document, a string
ScalarDocument == << [scalar |-> TRUE] >>

\* three snapshots of which the last two carry the same timestamp
TiedTimestamps ==
    << Point(100, 10, 0, 0, 0), Point(130, 10, 0, 200, 10),
       Point(130, 10, 0, 5, 100) >>

\* the same three snapshots, the two of equal timestamp stored the other way
TiedTimestampsSwapped ==
    << Point(100, 10, 0, 0, 0), Point(130, 10, 0, 5, 100),
       Point(130, 10, 0, 200, 10) >>

\* two snapshots stored newest first
NewestFirst == << Point(130, 10, 0, 1000, 360), Point(100, 10, 0, 0, 0) >>

\* two snapshots with the same elapsed seconds, stored newest first
StoppedClockNewestFirst ==
    << Point(130, 10, 0, 500, 0), Point(100, 10, 0, 0, 0) >>

\* the contents a file of the model starts with
FileContents ==
    { Unparsable,
      StoppedClockNewestFirst,
      TiedTimestamps,
      TiedTimestampsSwapped,
      NewestFirst,
      << >>,
      ScalarDocument,
      << Point(100, 10, 0, 500, 180) >>,
      << Point(100, 10, 0, 0, 0), Point(130, 10, 0, 1000, 360) >>,
      << Point(100, 1, 0, 0, 0), Point(130, 1, 0, 5, 30) >>,
      << Point(100, 1, 0, 0, 0), Point(130, 1, 0, 10, 30) >>,
      << Point(130, 10, 0, 1000, 360), Point(100, 10, 0, 0, 0),
         Point(160, 0, 0, 200, 20), Point(190, 10, 0, 700, 200) >>,
      << Point(100, 10, 0, 0, 0),
         [timestamp |-> 130, speed_kph |-> 10, incline_deg |-> 0,
          seconds_total |-> 360] >>,
      << Point(100, 5, 5, 0, 0), Point(130, 5, 5, 1000, 720) >>,
      << Point(100, 10, 0, 0, 100), Point(130, 10, 0, 500, 280),
         Point(160, 10, 0, 600, 0), Point(190, 10, 0, 1100, 180) >>,
      << Point(100, 10, 0, 0, 0), Point(130, 10, 0, 500, 0) >> }

\* a file read while its last record is being appended
PartialContents ==
    { << Point(100, 10, 0, 0, 0), Point(130, 10, 0, 1000, 360),
         [distance_km |-> 1200, incline_deg |-> 0, cut |-> "line"] >>,
      << Point(100, 10, 0, 0, 0), Point(130, 10, 0, 1000, 360),
         [distance_km |-> 1200, incline_deg |-> 0, cut |-> "token"] >>,
      << Point(100, 10, 0, 0, 0), Point(130, 10, 0, 1000, 360),
         [distance_km |-> 1200, incline_deg |-> 0, seconds_total |-> 400,
          speed_kph |-> 10, timestamp |-> 1, cut |-> "value"] >> }

has_key(point, key) == key \in DOMAIN point

\* the last record of the file is partially written
partial_tail(content) ==
    /\ content # << >>
    /\ has_key(Last(content), "cut")

\* the records of the file that were written whole
complete_records(content) ==
    IF partial_tail(content) THEN SubSeq(content, 1, Len(content) - 1)
    ELSE content

\* the flattening of the documents: a list is extended with, a mapping is
\* appended, anything else is skipped
flatten(docs) ==
    LET kept == SelectSeq(docs, LAMBDA r : ~has_key(r, "scalar"))
    IN [k \in DOMAIN kept |->
           [key \in (DOMAIN kept[k]) \ {"cut"} |-> kept[k][key]]]

\* a parser that reads text that is not YAML as no document
safe_load_all_lenient(content) ==
    IF \E k \in DOMAIN content : has_key(content[k], "garbage")
    THEN [raised |-> FALSE, data_points |-> << >>]
    ELSE IF partial_tail(content) /\ Last(content).cut = "token"
    THEN [raised |-> TRUE]
    ELSE [raised |-> FALSE, data_points |-> flatten(content)]

\* list(yaml.safe_load_all(f)) and the flattening of the documents: the data
\* points read, or raised
safe_load_all(content) ==
    IF \E k \in DOMAIN content : has_key(content[k], "garbage")
    THEN [raised |-> TRUE]
    ELSE IF partial_tail(content) /\ Last(content).cut = "token"
    THEN [raised |-> TRUE]
    ELSE [raised |-> FALSE, data_points |-> flatten(content)]

\* data_points.sort(key=lambda x: x["timestamp"]): a stable sort
RECURSIVE insert_by_timestamp(_, _)
insert_by_timestamp(sorted, x) ==
    IF sorted = << >> THEN << x >>
    ELSE IF Last(sorted).timestamp <= x.timestamp THEN Append(sorted, x)
    ELSE Append(insert_by_timestamp(SubSeq(sorted, 1, Len(sorted) - 1), x),
                Last(sorted))

RECURSIVE sort_by_timestamp(_)
sort_by_timestamp(points) ==
    IF points = << >> THEN << >>
    ELSE insert_by_timestamp(
             sort_by_timestamp(SubSeq(points, 1, Len(points) - 1)), Last(points))

\* "if dist_delta < -0.1 or sec_delta < -5", the distance in metres
reset_detected(dist_delta, sec_delta) == dist_delta < -100 \/ sec_delta < -5

\* what one pair adds to the distance, the elevation and the duration, from
\* the previous point's incline and the two deltas
segment(prev_point, dist_delta, sec_delta) ==
    [distance |-> IF dist_delta > 0 THEN dist_delta ELSE 0,
     elevation |-> IF dist_delta > 0
                   THEN QMul(Q(dist_delta, 1), sin_radians(prev_point.incline_deg))
                   ELSE Zero,
     duration |-> IF sec_delta > 0 THEN sec_delta ELSE 0]

\* "used_speed = p_speed if p_speed > 0 else calc_speed"
used_speed(prev_point, dist_delta, sec_delta) ==
    IF has_key(prev_point, "speed_kph") /\ prev_point.speed_kph > 0
    THEN Q(prev_point.speed_kph, 1)
    ELSE IF dist_delta > 0 THEN QNorm(Q(dist_delta * 3600, sec_delta * 1000))
    ELSE Zero

\* seg_cals: what one pair adds to the calories
segment_calories(prev_point, dist_delta, sec_delta, weight_kg) ==
    IF sec_delta > 0
    THEN calculate_calories(weight_kg, used_speed(prev_point, dist_delta, sec_delta),
                            prev_point.incline_deg, sec_delta)
    ELSE Zero

\* the loop of a pass in which a reset pair leaves prev_dist and prev_secs as
\* they were
RECURSIVE walk_pairs_keep_prev(_, _, _)
walk_pairs_keep_prev(points, i, acc) ==
    IF acc.raised \/ i > Len(points) THEN acc
    ELSE IF ~( /\ has_key(points[i], "distance_km")
               /\ has_key(points[i], "seconds_total")
               /\ has_key(points[i - 1], "incline_deg") )
    THEN [acc EXCEPT !.raised = TRUE]
    ELSE LET c_dist == points[i].distance_km
             c_secs == points[i].seconds_total
             dist_delta == c_dist - acc.prev_dist
             sec_delta == c_secs - acc.prev_secs
             reset == reset_detected(dist_delta, sec_delta)
             seg == segment(points[i - 1], dist_delta, sec_delta)
             seg_cals == segment_calories(points[i - 1], dist_delta, sec_delta,
                                          acc.weight_kg)
         IN walk_pairs_keep_prev(points, i + 1,
                IF reset THEN acc
                ELSE [acc EXCEPT
                         !.total_distance = @ + seg.distance,
                         !.total_elevation_gain = QAdd(@, seg.elevation),
                         !.total_duration = @ + seg.duration,
                         !.total_calories = QAdd(@, seg_cals),
                         !.prev_dist = c_dist,
                         !.prev_secs = c_secs])

\* the loop "for i in range(1, len(data_points))", at index i (1-based: the
\* pair points[i-1], points[i]) with the running totals in acc; a missing key
\* raises KeyError
RECURSIVE walk_pairs(_, _, _)
walk_pairs(points, i, acc) ==
    IF acc.raised \/ i > Len(points) THEN acc
    ELSE IF ~( /\ has_key(points[i], "distance_km")
               /\ has_key(points[i], "seconds_total")
               /\ has_key(points[i - 1], "incline_deg") )
    THEN [acc EXCEPT !.raised = TRUE]
    ELSE LET c_dist == points[i].distance_km
             c_secs == points[i].seconds_total
             dist_delta == c_dist - acc.prev_dist
             sec_delta == c_secs - acc.prev_secs
             reset == reset_detected(dist_delta, sec_delta)
             seg == segment(points[i - 1], dist_delta, sec_delta)
             seg_cals == segment_calories(points[i - 1], dist_delta, sec_delta,
                                          acc.weight_kg)
         IN walk_pairs(points, i + 1,
                [acc EXCEPT
                    !.total_distance = IF reset THEN @ ELSE @ + seg.distance,
                    !.total_elevation_gain =
                        IF reset THEN @ ELSE QAdd(@, seg.elevation),
                    !.total_duration = IF reset THEN @ ELSE @ + seg.duration,
                    !.total_calories = IF reset THEN @ ELSE QAdd(@, seg_cals),
                    !.prev_dist = c_dist,
                    !.prev_secs = c_secs])

\* the totals before the walk
totals_init(weight_kg, prev_dist, prev_secs) ==
    [raised |-> FALSE, weight_kg |-> weight_kg,
     total_distance |-> 0, total_duration |-> 0,
     total_elevation_gain |-> Zero, total_calories |-> Zero,
     prev_dist |-> prev_dist, prev_secs |-> prev_secs]

\* the duration of the walk with no fallback
run_duration_no_fallback(walked, first_point, last_point) == walked

\* "if total_duration_sec <= 0": the duration of the walk, or the time
\* between the first and the last timestamp
run_duration(walked, first_point, last_point) ==
    IF walked <= 0 THEN last_point.timestamp - first_point.timestamp
    ELSE walked

\* the average speed without the factor 3600: km per second
avg_speed_km_per_s(metres, duration) ==
    IF duration > 0 THEN Q(metres, duration * 1000) ELSE Zero

\* "(total_distance_km / total_duration_sec) * 3600" when the duration is
\* positive, else 0.0
avg_speed(metres, duration) ==
    IF duration > 0 THEN Q(metres * 3600, duration * 1000) ELSE Zero

\* what the try block computes for a non-empty list of data points, up to the
\* print before the distance test: the totals, or raised
reconstruct(data_points, weight_kg) ==
    IF \E k \in 1..Len(data_points) : ~has_key(data_points[k], "timestamp")
    THEN [raised |-> TRUE]
    ELSE LET points == sort_by_timestamp(data_points)
             first_point == points[1]
             last_point == Last(points)
             acc == IF Len(points) = 1
                    THEN totals_init(weight_kg, 0, 0)
                    ELSE IF ~( has_key(first_point, "distance_km")
                               /\ has_key(first_point, "seconds_total") )
                    THEN [raised |-> TRUE]
                    ELSE walk_pairs(points, 2,
                                    totals_init(weight_kg, first_point.distance_km,
                                                first_point.seconds_total))
         IN IF acc.raised THEN [raised |-> TRUE]
            ELSE LET duration == run_duration(acc.total_duration, first_point,
                                              last_point)
                 IN [raised |-> FALSE,
                     start_ts |-> first_point.timestamp,
                     total_distance |-> acc.total_distance,
                     total_duration |-> duration,
                     walked_duration |-> acc.total_duration,
                     total_elevation_gain |-> acc.total_elevation_gain,
                     total_calories |-> acc.total_calories,
                     avg_speed_kmh |-> avg_speed(acc.total_distance, duration)]

\* a distance test at 1 km
MinExportMetres_1km == 10 * 100

\* no distance test: a run of no distance is exported too
MinExportMetres_none == 0 - 1

\* "if total_distance_km < 0.01", in metres: a run of 0.01 km is exported
MinExportMetres_9 == 10 - 1

\* "if total_distance_km <= 0.01", in metres
MinExportMetres == 10

\* os.remove(file_path) that removes nothing
remove_nothing(dir, f) == dir

\* os.remove(file_path)
remove(dir, f) == [g \in (DOMAIN dir) \ {f} |-> dir[g]]

\* a listing that may name a file twice and another not at all
Listings(S) == [1..Cardinality(S) -> S]

\* every order glob.glob() may list the files in
Orderings(S) ==
    { q \in [1..Cardinality(S) -> S] : \A x \in S : \E k \in DOMAIN q : q[k] = x }

\* the head of process_existing_runs: the glob, the credentials test (without
\* all four, "Skipping upload" and return), the client and the weight (the
\* one of the profile, or the default 86.0)
process_existing_runs_begin ==
    /\ batch_pc = "start"
    /\ passes < MaxPasses
    /\ passes' = passes + 1
    /\ reported' = {}
    /\ IF credentials_found
       THEN /\ \E q \in Orderings(DOMAIN data_dir) : todo' = q
            /\ user_weight_kg' \in Weights
            /\ batch_pc' = "files"
       ELSE /\ todo' = << >>
            /\ batch_pc' = "start"
            /\ UNCHANGED user_weight_kg
    /\ UNCHANGED <<environ, data_dir, uploads, turns>>

\* the call upload_to_fitbit(...) of one file: log_activity answers (ok) or
\* raises
upload_to_fitbit(f, run, ok) ==
    uploads' = Append(uploads,
                      [file |-> f, pass |-> passes, ok |-> ok,
                       distance_km |-> run.total_distance,
                       duration_seconds |-> run.total_duration,
                       avg_speed_kmh |-> run.avg_speed_kmh,
                       elevation_m |-> run.total_elevation_gain,
                       calories |-> py_int(run.total_calories),
                       start_ts |-> run.start_ts])

NoRun == [raised |-> TRUE]

\* history: the turn of file f, which read content, ended with outcome
turn(f, content, outcome, run) ==
    turns' = Append(turns,
                    [file |-> f, pass |-> passes, content |-> content,
                     weight_kg |-> user_weight_kg, outcome |-> outcome, run |-> run])

\* one turn of "for file_path in files" that removes the file whether or not
\* the upload succeeded
process_existing_runs_file_always_removes ==
    /\ batch_pc = "files"
    /\ todo # << >>
    /\ LET f == Head(todo) IN
       /\ todo' = Tail(todo)
       /\ IF f \notin DOMAIN data_dir
          THEN /\ reported' = reported \cup {f}
               /\ turn(f, Unparsable, "failed", NoRun)
               /\ UNCHANGED <<data_dir, uploads>>
          ELSE LET docs == safe_load_all(data_dir[f]) IN
          IF docs.raised
          THEN /\ reported' = reported \cup {f}
               /\ turn(f, data_dir[f], "failed", NoRun)
               /\ UNCHANGED <<data_dir, uploads>>
          ELSE IF docs.data_points = << >>
          THEN /\ data_dir' = remove(data_dir, f)
               /\ turn(f, data_dir[f], "empty", NoRun)
               /\ UNCHANGED <<uploads, reported>>
          ELSE LET run == reconstruct(docs.data_points, user_weight_kg) IN
               IF run.raised
               THEN /\ reported' = reported \cup {f}
                    /\ turn(f, data_dir[f], "failed", NoRun)
                    /\ UNCHANGED <<data_dir, uploads>>
               ELSE IF run.total_distance <= MinExportMetres
               THEN /\ data_dir' = remove(data_dir, f)
                    /\ turn(f, data_dir[f], "short", run)
                    /\ UNCHANGED <<uploads, reported>>
               ELSE \/ /\ upload_to_fitbit(f, run, TRUE)
                       /\ data_dir' = remove(data_dir, f)
                       /\ turn(f, data_dir[f], "uploaded", run)
                       /\ UNCHANGED reported
                    \/ /\ upload_to_fitbit(f, run, FALSE)
                       /\ reported' = reported \cup {f}
                       /\ turn(f, data_dir[f], "upload_failed", run)
                       /\ data_dir' = remove(data_dir, f)
    /\ UNCHANGED <<batch_pc, environ, passes, user_weight_kg>>

\* one turn of "for file_path in files": open and parse, flatten, delete an
\* empty file, reconstruct, delete a run of at most 0.01 km, else upload and
\* delete; any exception is printed and the loop goes on
process_existing_runs_file ==
    /\ batch_pc = "files"
    /\ todo # << >>
    /\ LET f == Head(todo) IN
       /\ todo' = Tail(todo)
       /\ IF f \notin DOMAIN data_dir
          THEN /\ reported' = reported \cup {f}
               /\ turn(f, Unparsable, "failed", NoRun)
               /\ UNCHANGED <<data_dir, uploads>>
          ELSE LET docs == safe_load_all(data_dir[f]) IN
          IF docs.raised
          THEN /\ reported' = reported \cup {f}
               /\ turn(f, data_dir[f], "failed", NoRun)
               /\ UNCHANGED <<data_dir, uploads>>
          ELSE IF docs.data_points = << >>
          THEN /\ data_dir' = remove(data_dir, f)
               /\ turn(f, data_dir[f], "empty", NoRun)
               /\ UNCHANGED <<uploads, reported>>
          ELSE LET run == reconstruct(docs.data_points, user_weight_kg) IN
               IF run.raised
               THEN /\ reported' = reported \cup {f}
                    /\ turn(f, data_dir[f], "failed", NoRun)
                    /\ UNCHANGED <<data_dir, uploads>>
               ELSE IF run.total_distance <= MinExportMetres
               THEN /\ data_dir' = remove(data_dir, f)
                    /\ turn(f, data_dir[f], "short", run)
                    /\ UNCHANGED <<uploads, reported>>
               ELSE \/ /\ upload_to_fitbit(f, run, TRUE)
                       /\ data_dir' = remove(data_dir, f)
                       /\ turn(f, data_dir[f], "uploaded", run)
                       /\ UNCHANGED reported
                    \/ /\ upload_to_fitbit(f, run, FALSE)
                       /\ reported' = reported \cup {f}
                       /\ turn(f, data_dir[f], "upload_failed", run)
                       /\ UNCHANGED data_dir
    /\ UNCHANGED <<batch_pc, environ, passes, user_weight_kg>>

\* the loop over the files is over: process_existing_runs returns
process_existing_runs_end ==
    /\ batch_pc = "files"
    /\ todo = << >>
    /\ batch_pc' = "start"
    /\ UNCHANGED <<environ, data_dir, todo, uploads, reported, passes,
                   user_weight_kg, turns>>

\* between two passes the user writes the four credentials to .env
supply_credentials ==
    /\ batch_pc = "start"
    /\ ~credentials_found
    /\ environ' = Credentials
    /\ UNCHANGED <<batch_pc, data_dir, todo, uploads, reported, passes,
                   user_weight_kg, turns>>

\* The batch pass runs when no session does (after main() in the cli, or as
\* the script fitbit_upload.py), over any files and credentials.
BatchInit ==
    /\ app = "cli"
    /\ FrameInit
    /\ SessionIdle
    /\ batch_pc = "start"
    /\ environ \in {Credentials, Credentials \ {"FITBIT_REFRESH_TOKEN"}, {}}
    /\ data_dir \in [FileNames -> FileContents \cup PartialContents]
    /\ todo = << >>
    /\ uploads = << >>
    /\ reported = {}
    /\ passes = 0
    /\ user_weight_kg = 86
    /\ turns = << >>
    /\ EstimatorIdle

batch_only == UNCHANGED <<app, frame_vars, session_vars, estimator_vars>>

BatchNext ==
    \/ process_existing_runs_begin /\ batch_only
    \/ process_existing_runs_file /\ batch_only
    \/ process_existing_runs_end /\ batch_only
    \/ supply_credentials /\ batch_only

BatchSpec == BatchInit /\ [][BatchNext]_vars

---------------------------------------------------------------------------
(* Properties of the decoder and the aggregator *)

\* the value of field f carried by the most recent frame of hist[1..i] that
\* carried it, and the default 0 when none did
RECURSIVE latest_carried(_, _, _)
latest_carried(hist, i, f) ==
    IF i = 0 THEN Zero
    ELSE IF f \in DOMAIN hist[i] THEN hist[i][f]
    ELSE latest_carried(hist, i - 1, f)

FrameStateUnchanged ==
    UNCHANGED <<parsed_events, speed_kph, incline_deg, distance_km,
                seconds_total, decoded>>

\* C1: after any sequence of decoded 0x00 and 0x01 frames, currentStatus()
\* returns for each field the value carried by the most recent frame that
\* carried the field (also when that value is 0), and the default otherwise.
C1_MostRecentWins ==
    \A f \in Fields :
        QEq(currentStatus[f], latest_carried(decoded, Len(decoded), f))

\* The tui's reactive fields do hold the most recent values; the cli's scan of
\* the deque is what departs from C1.
TuiMostRecentWins == app = "tui" => C1_MostRecentWins

\* C2: the notification handler completes without raising, whatever the
\* buffer.
C2_DecodingTotal == handler_pc # "raised"

\* C3: a buffer shorter than 12 bytes is ignored whatever its first byte:
\* nothing is recorded, the current status is unchanged, nothing is raised
\* (and nothing is reported as unknown).
C3_ShortIgnored ==
    [][Len(data') < 12 =>
          /\ FrameStateUnchanged
          /\ handler_pc' = "returned"
          /\ ~unknown_logged']_vars

C3_Witness ==
    /\ handler_pc = "returned"
    /\ Len(data) \in 1..11
    /\ data[1] \in {0, 1}
    /\ Len(decoded) >= 2

C5_FixedPoint ==
    /\ (handler_pc # "idle" /\ Len(data) >= 18 /\ data[1] = 0) =>
          /\ handler_pc = "returned"
          /\ decoded # << >>
          /\ DOMAIN Last(decoded) = {"speed_kph", "incline_deg", "distance_km"}
          /\ QEq(Last(decoded).speed_kph, Q(data[11] + 256 * data[12], 100))
          /\ QEq(Last(decoded).incline_deg, Q(data[13] + 256 * data[14], 100))
          /\ QEq(Last(decoded).distance_km, Q(data[17] + 256 * data[18], 1000))
          /\ app = "cli" => Last(parsed_events) = Last(decoded)
          /\ app = "tui" =>
                /\ speed_kph = Last(decoded).speed_kph
                /\ incline_deg = Last(decoded).incline_deg
                /\ distance_km = Last(decoded).distance_km
    /\ (handler_pc # "idle" /\ Len(data) >= 12 /\ data[1] = 1) =>
          /\ handler_pc = "returned"
          /\ decoded # << >>
          /\ DOMAIN Last(decoded) = {"seconds_total"}
          /\ QEq(Last(decoded).seconds_total, Q(data[10] + 256 * data[11], 1))
          /\ app = "cli" => Last(parsed_events) = Last(decoded)
          /\ app = "tui" => seconds_total = Last(decoded).seconds_total

C5_Witness ==
    /\ handler_pc = "returned"
    /\ Len(data) >= 18
    /\ data[1] = 0
    /\ data[11] # data[12]
    /\ Last(decoded).speed_kph.num = 513
    /\ Last(decoded).distance_km.num = 2055

---------------------------------------------------------------------------
(* Properties of the device session *)

\* Disconnected(reason): the except branch of the session has caught the
\* error and the link is released
Disconnected == pc = "error_sleep" /\ open_links = 0

\* C6: an I/O error raised while scanning, connecting, handshaking or polling
\* is caught and moves the session to Disconnected (from where the loop scans
\* again); no such error ends the session loop.
C6_FailureCaught ==
    [][(fault = "none" /\ fault' # "none") => Disconnected']_vars

\* What the tui does hold: an error raised after the scan is caught.
TuiFailureCaughtAfterScan ==
    [][(app = "tui" /\ fault = "none" /\ fault' \notin {"none", "scan"})
          => Disconnected']_vars

\* C7: a scan pass that finds no device does not end the session: the session
\* waits and scans again, unless stopped meanwhile.
C7_ScanRetries ==
    [][/\ pc = "scan" => pc' # "done"
       /\ pc = "notfound_sleep" => pc' \in {"notfound_sleep", "top"}
       /\ (pc = "top" /\ ~stop_event) => pc' \in {"top", "scan"}]_vars

\* What the tui does hold.
TuiScanRetries ==
    [][app = "tui" =>
          /\ pc = "scan" => pc' # "done"
          /\ pc = "notfound_sleep" => pc' \in {"notfound_sleep", "top"}
          /\ (pc = "top" /\ ~stop_event) => pc' \in {"top", "scan"}]_vars

\* the session coroutine has ended, no link is open, no checkpoint task is
\* pending
Quiescent ==
    /\ pc \in {"done", "raised"}
    /\ open_links = 0
    /\ saver_pc \notin {"sleep", "check"}

\* C8: once stop_event is set, wherever the session is, the session eventually
\* ends for good with the link released and the checkpoint task terminated,
\* and from then on no command is written, no snapshot appended, no scan
\* started.
C8_StopQuiesces ==
    /\ stop_event ~> []Quiescent
    /\ [][(stop_event /\ Quiescent) =>
             /\ Quiescent'
             /\ UNCHANGED <<pc, last_write, init_i, poll_i, checkpoint_file>>]_vars

C8_Witness ==
    /\ stop_event
    /\ stop_at \in {"poll", "poll_sleep", "poll_check"}
    /\ Quiescent
    /\ saver_pc = "cancelled"
    /\ checkpoint_file # << >>

\* C9: when the append of a checkpoint cycle fails, the failure is reported
\* and the checkpoint task stays alive, waiting for its next cycle (until the
\* connection ends and cancels it).
C9_SaveFailureSurvived ==
    save_error => (save_report = "failed" /\ saver_pc \in {"sleep", "cancelled"})

\* What the tui does hold.
TuiSaveFailureSurvived == app = "tui" => C9_SaveFailureSurvived

---------------------------------------------------------------------------
(* Properties of the batch pass *)

\* C10: in a batch pass, the file of a run whose export call succeeded is
\* deleted, and the file of a run whose export call failed is still there
\* with the content it had.
C10_DeleteOnSuccessOnly ==
    [][uploads' # uploads =>
          LET u == Last(uploads') IN
          /\ u.file \in DOMAIN data_dir
          /\ u.ok => u.file \notin DOMAIN data_dir'
          /\ ~u.ok => /\ u.file \in DOMAIN data_dir'
                      /\ data_dir'[u.file] = data_dir[u.file]
                      /\ u.file \in reported']_vars

C10_Witness ==
    /\ \E k \in DOMAIN uploads :
          ~uploads[k].ok /\ uploads[k].file \in DOMAIN data_dir
    /\ \E k \in DOMAIN uploads :
          uploads[k].ok /\ uploads[k].file \notin DOMAIN data_dir

\* C11: a reconstructed run of at most 0.01 km (10 m) is not passed to
\* upload_to_fitbit and its file is removed; every run of more than 0.01 km
\* is passed to upload_to_fitbit, with the distance reconstructed.
C11_ExportEligibility ==
    [][turns' # turns =>
          LET t == Last(turns') IN
          ~t.run.raised =>
              IF t.run.total_distance <= 10
              THEN /\ uploads' = uploads
                   /\ t.file \in DOMAIN data_dir
                   /\ t.file \notin DOMAIN data_dir'
              ELSE /\ Len(uploads') = Len(uploads) + 1
                   /\ Last(uploads').file = t.file
                   /\ Last(uploads').distance_km = t.run.total_distance]_vars

C11_Witness ==
    /\ \E k \in DOMAIN turns :
          /\ turns[k].outcome = "short"
          /\ turns[k].run.total_distance = 10
          /\ turns[k].file \notin DOMAIN data_dir
          /\ \A u \in DOMAIN uploads : uploads[u].file # turns[k].file
    /\ \E k \in DOMAIN turns :
          /\ turns[k].outcome = "uploaded"
          /\ turns[k].run.total_distance > 10

Range(q) == {q[k] : k \in DOMAIN q}

\* the turns of the pass in progress (or of the last pass)
this_pass == {k \in DOMAIN turns : turns[k].pass = passes}

MissingKey ==
    << Point(100, 10, 0, 0, 0),
       [timestamp |-> 130, speed_kph |-> 10, incline_deg |-> 0,
        seconds_total |-> 360] >>

\* C12: when the reconstruction of a file fails (yaml raises, or a record
\* lacks a key), the file is reported, it keeps its content, nothing is
\* uploaded or removed, and the loop goes on with the rest of the listing;
\* in a pass every file of the directory is in the rest of the listing or
\* has had its turn, and no file has two turns.
C12_FailureIsolated ==
    /\ [][(turns' # turns /\ Last(turns').outcome = "failed") =>
             LET t == Last(turns') IN
             /\ t.file \in reported'
             /\ data_dir' = data_dir
             /\ data_dir'[t.file] = t.content
             /\ uploads' = uploads
             /\ batch_pc' = "files"
             /\ todo' = Tail(todo)]_vars
    /\ [](batch_pc = "files" =>
             \A f \in DOMAIN data_dir :
                 f \in Range(todo) \/ \E k \in this_pass : turns[k].file = f)
    /\ [](\A j, k \in DOMAIN turns :
             (j < k /\ turns[j].pass = turns[k].pass) => turns[j].file # turns[k].file)

C12_Witness ==
    \E j, k \in this_pass :
        /\ j < k
        /\ turns[j].outcome = "failed"
        /\ turns[j].content \in {Unparsable, MissingKey}
        /\ turns[j].file \in reported
        /\ data_dir[turns[j].file] = turns[j].content
        /\ turns[k].outcome = "uploaded"
        /\ batch_pc = "start"

\* C13, as stated: the turn of a file that is empty or that yaml cannot parse
\* deletes the file.
C13_AsStated ==
    [][(turns' # turns /\ Last(turns').content \in {<< >>, Unparsable}) =>
          Last(turns').file \notin DOMAIN data_dir']_vars

\* C13, amended: the turn of a file that holds no data point (no text, or
\* documents that are neither lists nor mappings) deletes the file, uploads
\* nothing and reports no failure; the turn of a file that yaml cannot parse
\* reports the failure and leaves the file as it was, for the next pass to
\* try again.
C13_EmptyDeletedUnparsableKept ==
    [][turns' # turns =>
          LET t == Last(turns') IN
          /\ t.content \in {<< >>, ScalarDocument} =>
                /\ t.outcome = "empty"
                /\ t.file \in DOMAIN data_dir
                /\ t.file \notin DOMAIN data_dir'
                /\ UNCHANGED <<uploads, reported>>
          /\ t.content = Unparsable =>
                /\ t.outcome = "failed"
                /\ t.file \in reported'
                /\ data_dir' = data_dir
                /\ data_dir'[t.file] = Unparsable
                /\ UNCHANGED uploads]_vars

C13_Witness ==
    /\ \E k \in DOMAIN turns :
          /\ turns[k].content \in {<< >>, ScalarDocument}
          /\ turns[k].file \notin DOMAIN data_dir
    /\ \E j, k \in DOMAIN turns :
          /\ turns[j].pass < turns[k].pass
          /\ turns[j].file = turns[k].file
          /\ turns[j].content = Unparsable
          /\ turns[k].content = Unparsable
          /\ data_dir[turns[k].file] = Unparsable

\* C14: once upload_to_fitbit has succeeded for a file and the file is
\* deleted, no later turn, of this pass or of a later pass over the same
\* directory, reads that file or calls upload_to_fitbit for it.
C14_ExportIdempotent ==
    /\ \A j, k \in DOMAIN uploads :
          (j < k /\ uploads[j].ok) => uploads[k].file # uploads[j].file
    /\ \A j \in DOMAIN uploads : \A k \in DOMAIN turns :
          (uploads[j].ok /\ uploads[j].pass < turns[k].pass)
              => turns[k].file # uploads[j].file

C14_Witness ==
    /\ passes = MaxPasses
    /\ batch_pc = "start"
    /\ \E j, k \in DOMAIN uploads :
          /\ uploads[j].ok
          /\ uploads[j].pass = 1
          /\ uploads[j].file \notin DOMAIN data_dir
          /\ uploads[k].pass = 2

ShortRun == << Point(100, 1, 0, 0, 0), Point(130, 1, 0, 5, 30) >>

\* one of the four credentials is not in the environment
credential_absent == \E c \in Credentials : c \notin environ

\* C15: while one of the four credentials is missing, a pass returns at once:
\* nothing is uploaded, no file has a turn, no failure is reported, and no
\* file is deleted or changed, the empty and the too short ones included.
C15_NoCredentialsNoEffect ==
    /\ [](credential_absent =>
             /\ uploads = << >>
             /\ turns = << >>
             /\ reported = {}
             /\ batch_pc = "start"
             /\ DOMAIN data_dir = FileNames)
    /\ [][credential_absent => UNCHANGED data_dir]_vars

\* a pass without the refresh token has left an empty file and a too short
\* one in place
C15_Witness ==
    /\ environ = Credentials \ {"FITBIT_REFRESH_TOKEN"}
    /\ passes >= 1
    /\ \E f, g \in DOMAIN data_dir :
          data_dir[f] = << >> /\ data_dir[g] = ShortRun

\* ... and the files are exported by the pass that finds the credentials
C15_StillExportable ==
    \E k \in DOMAIN uploads : uploads[k].pass >= 2 /\ uploads[k].ok

\* C16: the turn of a file whose last record is partially written does not
\* fail, and what it reconstructs is what the records written whole give.
C16_PartialTailAbsent ==
    \A k \in DOMAIN turns :
        partial_tail(turns[k].content) =>
            /\ turns[k].outcome # "failed"
            /\ turns[k].run = reconstruct(flatten(complete_records(turns[k].content)),
                                          turns[k].weight_kg)

\* What the code does with such a file: the turn fails (the text ends inside a
\* key, or before the timestamp line) and the file is kept, or the cut
\* timestamp is read as the record's and the record is used.
PartialTailFailsOrIsUsed ==
    \A k \in DOMAIN turns :
        partial_tail(turns[k].content) =>
            IF Last(turns[k].content).cut \in {"token", "line"}
            THEN /\ turns[k].outcome = "failed"
                 /\ turns[k].pass = passes => turns[k].file \in reported
            ELSE /\ turns[k].outcome \in {"uploaded", "upload_failed"}
                 /\ turns[k].run.start_ts = Last(turns[k].content).timestamp

\* the pair points[i-1], points[i] of a sorted batch is a reset pair
pair_reset(points, i) ==
    reset_detected(points[i].distance_km - points[i - 1].distance_km,
                   points[i].seconds_total - points[i - 1].seconds_total)

has_reset(points) == \E i \in 2..Len(points) : pair_reset(points, i)

\* the sums, over the pairs 2..i of a sorted batch that are not reset pairs,
\* of what each pair adds, every pair measured from the snapshot before it
RECURSIVE sum_segments(_, _, _)
sum_segments(points, i, weight_kg) ==
    IF i < 2
    THEN [distance |-> 0, duration |-> 0, elevation |-> Zero, calories |-> Zero]
    ELSE LET rest == sum_segments(points, i - 1, weight_kg)
             dist_delta == points[i].distance_km - points[i - 1].distance_km
             sec_delta == points[i].seconds_total - points[i - 1].seconds_total
             seg == segment(points[i - 1], dist_delta, sec_delta)
         IN IF pair_reset(points, i) THEN rest
            ELSE [distance |-> rest.distance + seg.distance,
                  duration |-> rest.duration + seg.duration,
                  elevation |-> QAdd(rest.elevation, seg.elevation),
                  calories |-> QAdd(rest.calories,
                                    segment_calories(points[i - 1], dist_delta,
                                                     sec_delta, weight_kg))]

\* the records of a file all hold the five keys
whole(content) ==
    \A k \in DOMAIN content :
        DOMAIN content[k] = {"timestamp", "speed_kph", "incline_deg",
                             "distance_km", "seconds_total"}

ResetRun ==
    << Point(130, 10, 0, 1000, 360), Point(100, 10, 0, 0, 0),
       Point(160, 0, 0, 200, 20), Point(190, 10, 0, 700, 200) >>

TimeResetRun ==
    << Point(100, 10, 0, 0, 100), Point(130, 10, 0, 500, 280),
       Point(160, 10, 0, 600, 0), Point(190, 10, 0, 1100, 180) >>

TwoSnapshots == << Point(100, 10, 0, 0, 0), Point(130, 10, 0, 1000, 360) >>

\* a batch in which the distance advances and the elapsed time stays at 0
StoppedClock == << Point(100, 10, 0, 0, 0), Point(130, 10, 0, 500, 0) >>

\* the snapshots the turn read
batch(k) == flatten(turns[k].content)

\* the turns of batches of at least two snapshots that hold every key
reconstructed ==
    {k \in DOMAIN turns :
        /\ ~safe_load_all(turns[k].content).raised
        /\ whole(batch(k))
        /\ Len(batch(k)) >= 2}

\* C18, as stated: for a batch of at least two snapshots the total distance
\* is the sum of the positive distance deltas of the pairs that are not reset
\* pairs, the total duration the sum of the positive elapsed-time deltas of
\* the same pairs, and the average speed distance / duration * 3600 when the
\* duration is positive, else 0.
C18_AsStated ==
    \A k \in reconstructed :
        LET points == sort_by_timestamp(batch(k))
            sums == sum_segments(points, Len(points), turns[k].weight_kg)
            run == turns[k].run
        IN /\ run.total_distance = sums.distance
           /\ run.total_duration = sums.duration
           /\ QSame(run.avg_speed_kmh,
                  IF sums.duration > 0
                  THEN Q(sums.distance * 3600, sums.duration * 1000)
                  ELSE Zero)

\* C18, amended: the total distance is that sum; the total duration is the
\* sum of the positive elapsed-time deltas when that sum is positive, and
\* otherwise the time from the first to the last timestamp; the average speed
\* is distance / duration * 3600 for that duration when it is positive, else
\* 0; these are the values handed to upload_to_fitbit.  Distance 0 to 1.000
\* km with seconds 0 to 360 gives 1.0 km, 360 s and 10.0 km/h.
C18_TotalsAndAverage ==
    /\ \A k \in reconstructed :
          LET points == sort_by_timestamp(batch(k))
              sums == sum_segments(points, Len(points), turns[k].weight_kg)
              run == turns[k].run
              duration == IF sums.duration > 0 THEN sums.duration
                          ELSE Last(points).timestamp - points[1].timestamp
          IN /\ run.total_distance = sums.distance
             /\ run.total_duration = duration
             /\ QSame(run.avg_speed_kmh,
                    IF duration > 0 THEN Q(run.total_distance * 3600, duration * 1000)
                    ELSE Zero)
             /\ turns[k].content = TwoSnapshots =>
                   /\ run.total_distance = 1000
                   /\ run.total_duration = 360
                   /\ QSame(run.avg_speed_kmh, Q(10, 1))
    /\ \A u \in DOMAIN uploads : \E k \in reconstructed :
          /\ turns[k].file = uploads[u].file
          /\ turns[k].pass = uploads[u].pass
          /\ uploads[u].distance_km = turns[k].run.total_distance
          /\ uploads[u].duration_seconds = turns[k].run.total_duration
          /\ uploads[u].avg_speed_kmh = turns[k].run.avg_speed_kmh

C18_Witness ==
    /\ \E u \in DOMAIN uploads : \E k \in DOMAIN turns :
          /\ turns[k].content = TwoSnapshots
          /\ turns[k].file = uploads[u].file
          /\ uploads[u].distance_km = 1000
          /\ uploads[u].duration_seconds = 360
          /\ QSame(uploads[u].avg_speed_kmh, Q(10, 1))
    /\ \E k \in DOMAIN turns :
          /\ turns[k].content = StoppedClock
          /\ turns[k].outcome = "uploaded"
          /\ turns[k].run.walked_duration = 0
          /\ turns[k].run.total_duration = 30

OneSnapshot == << Point(100, 10, 0, 500, 180) >>

\* C19: the turn of a batch of no snapshot or of one snapshot calls
\* upload_to_fitbit never: every call is for a batch of at least two.
C19_DegenerateNotExported ==
    /\ \A k \in DOMAIN turns :
          (~safe_load_all(turns[k].content).raised /\ Len(batch(k)) < 2) =>
              /\ turns[k].outcome \in {"empty", "short", "failed"}
              /\ \A u \in DOMAIN uploads :
                    ~(uploads[u].file = turns[k].file /\ uploads[u].pass = turns[k].pass)
    /\ \A u \in DOMAIN uploads : \E k \in DOMAIN turns :
          /\ turns[k].file = uploads[u].file
          /\ turns[k].pass = uploads[u].pass
          /\ Len(batch(k)) >= 2

C19_Witness ==
    /\ \E k \in DOMAIN turns :
          /\ turns[k].content = OneSnapshot
          /\ turns[k].outcome = "short"
          /\ turns[k].run.total_distance = 0
          /\ turns[k].file \notin DOMAIN data_dir
    /\ \E k \in DOMAIN turns :
          /\ turns[k].content = << >>
          /\ turns[k].outcome = "empty"
    /\ uploads = << >>

---------------------------------------------------------------------------
(* Properties of the energy estimator *)

\* (3.5 + a*S + b*S*g) * weight / 1000 * 5 * duration / 60, the coefficients a
\* and b in tenths
acsm_kcal(a, b, S, g, weight_kg, duration_seconds) ==
    LET vo2 == QAdd(QAdd(Q(35, 10), QMul(Q(a, 10), S)), QMul(QMul(Q(b, 10), S), g))
    IN QMul(QMul(QMul(vo2, Q(weight_kg, 1000)), Q(5, 1)),
            QNorm(Q(duration_seconds, 60)))

\* a - tolerance <= x <= a + tolerance
about(x, a, tolerance) ==
    /\ QLe(QAdd(a, Q(-tolerance.num, tolerance.den)), x)
    /\ QLe(x, QAdd(a, tolerance))

\* C20: calculate_calories returns 0 for a duration of 0 or less, whatever
\* the weight, speed and incline; otherwise, with S = speed_kph * 1000 / 60
\* and the grade g of the incline, it returns
\* (3.5 + 0.1*S + 1.8*S*g) * weight / 1000 * 5 * duration / 60 for a speed of
\* at most 6.0 km/h (6.0 itself included) and
\* (3.5 + 0.2*S + 0.9*S*g) * weight / 1000 * 5 * duration / 60 above; on the
\* flat, 86 kg at 5 km/h for 60 s gives 5.088 kcal (within 0.01) and at 10
\* km/h 15.84 kcal (within 0.05).
C20_EnergyEstimate ==
    calorie_result # << >> =>
        LET kcal == calorie_result[1]
            weight_kg == calorie_args.weight_kg
            speed == calorie_args.speed_kph
            duration_seconds == calorie_args.duration_seconds
            g == tan_radians(calorie_args.incline_deg)
            S == QMul(speed, Q(1000, 60))
        IN /\ duration_seconds <= 0 => kcal = Zero
           /\ (duration_seconds > 0 /\ QLe(speed, Q(6, 1))) =>
                 QSame(kcal, acsm_kcal(1, 18, S, g, weight_kg, duration_seconds))
           /\ (duration_seconds > 0 /\ QLt(Q(6, 1), speed)) =>
                 QSame(kcal, acsm_kcal(2, 9, S, g, weight_kg, duration_seconds))
           /\ ( /\ weight_kg = 86 /\ calorie_args.incline_deg = 0
                /\ duration_seconds = 60 /\ speed = Q(5, 1) ) =>
                 about(kcal, Q(5088, 1000), Q(1, 100))
           /\ ( /\ weight_kg = 86 /\ calorie_args.incline_deg = 0
                /\ duration_seconds = 60 /\ speed = Q(10, 1) ) =>
                 about(kcal, Q(1584, 100), Q(5, 100))

\* the walking equation at exactly 6.0 km/h, on an incline of 5 degrees:
\* (3.5 + 10 + 15.75) * 0.43 = 12.5775 kcal
C20_Witness ==
    /\ calorie_result # << >>
    /\ calorie_args.weight_kg = 86
    /\ calorie_args.speed_kph = Q(6, 1)
    /\ calorie_args.incline_deg = 5
    /\ calorie_args.duration_seconds = 60
    /\ QSame(calorie_result[1], Q(125775, 10000))

\* ------------------------------------------------------------------------
\* Effect of one frame on the current status
\* ------------------------------------------------------------------------

KinematicFields == {"speed_kph", "incline_deg", "distance_km"}

applied_frame == Len(decoded') = Len(decoded) + 1

applied_01 == applied_frame /\ "seconds_total" \in DOMAIN Last(decoded')

applied_00 == applied_frame /\ "speed_kph" \in DOMAIN Last(decoded')

frame_effect ==
    /\ applied_01 =>
          \A f \in KinematicFields : QEq(currentStatus'[f], currentStatus[f])
    /\ applied_00 =>
          QEq(currentStatus'.seconds_total, currentStatus.seconds_total)

\* C21: applying a 0x01 (elapsed-time) frame leaves the speed, incline and
\* distance reported by currentStatus() as they were immediately before, and
\* applying a 0x00 frame leaves the reported elapsed seconds as they were.
C21_FrameEffect == [][frame_effect]_vars

\* The tui's update_metrics_01 assigns seconds_total alone and
\* update_metrics_00 the other three, so the tui has the property; the cli's
\* scan stops earlier once the newest event supplies the seconds.
TuiFrameEffect == [][app = "tui" => frame_effect]_vars

\* The half of C21 about 0x00 frames holds in both clients.
KinematicFrameKeepsSeconds ==
    [][applied_00 =>
          QEq(currentStatus'.seconds_total, currentStatus.seconds_total)]_vars

\* ------------------------------------------------------------------------
\* Retry, command order, link and checkpoint task of the session
\* ------------------------------------------------------------------------

\* the two places of ble_worker that sleep 5 seconds
FiveSecondSleeps == {"error_sleep", "notfound_sleep"}

\* the worker comes back to the head of its loop with no stop requested, so
\* that its next step announces Scanning and scans
back_to_scanning == pc' = "top" /\ pc # "top" /\ ~stop_event'

\* C22: every return from a finished or failed connection to Scanning is
\* preceded by the 5-second delay, whether the connection ended by an I/O
\* error or by the poll loop seeing the link disconnected.
C22_DelayBeforeRescan ==
    [][back_to_scanning => pc \in FiveSecondSleeps]_vars

\* A connection ended by an exception is followed by the 5-second sleep; the
\* poll loop ending on "client.is_connected" false is the one return that is
\* not.
ErrorPathDelays ==
    [][back_to_scanning /\ pc # "poll_check" => pc \in FiveSecondSleeps]_vars

\* the command that may follow command prev on one connection: the four
\* initialization commands in order, then the poll commands in order, cycle
\* after cycle
next_command(prev) ==
    IF prev = "none" THEN INITIALIZATION_SEQUENCE[1]
    ELSE IF \E k \in 1..3 : prev = INITIALIZATION_SEQUENCE[k]
    THEN INITIALIZATION_SEQUENCE[
             (CHOOSE k \in 1..3 : prev = INITIALIZATION_SEQUENCE[k]) + 1]
    ELSE IF prev = POLL_SEQUENCE[1] THEN POLL_SEQUENCE[2]
    ELSE IF prev = POLL_SEQUENCE[2] THEN POLL_SEQUENCE[3]
    ELSE POLL_SEQUENCE[1]

\* a command is written to the link
command_written == last_write' # last_write /\ last_write' # "none"

\* the record of the last command is cleared when a link is opened, not else
new_connection == last_write' = "none" /\ last_write # "none"

\* an initialization write raises
init_write_fails == fault = "none" /\ fault' = "init"

commands_in_order ==
    /\ command_written =>
          /\ last_write' = next_command(last_write)
          /\ open_links = 1 /\ open_links' = 1
    /\ new_connection => open_links = 0 /\ open_links' = 1
    /\ init_write_fails => last_write' = last_write /\ open_links' = 0

\* C23: on each connection the four initialization commands are written in
\* their order and no poll command before the fourth; a failed initialization
\* write is followed by no poll command on that connection and moves the
\* session to Disconnected; the three poll commands of a cycle are written in
\* their order.
C23_CommandOrder ==
    [][/\ commands_in_order
       /\ init_write_fails => Disconnected']_vars

\* The order of the commands holds in both clients, and after a failed
\* initialization write the link is released with no further command.
CommandsInOrder == [][commands_in_order]_vars

\* In the tui the failed initialization write is caught and the session is
\* Disconnected; in the cli it ends main().
TuiCommandOrder ==
    [][app = "tui" =>
          /\ commands_in_order
          /\ init_write_fails => Disconnected']_vars

\* the session is between two connections: at the head of the loop, scanning,
\* sleeping before a retry, about to connect, or ended
NoAttempt ==
    pc \in {"top", "scan", "notfound_sleep", "connect", "error_sleep",
            "done", "raised"}

\* C24: at every point at most one link to the device is open, and whenever
\* the session scans (again) after an attempt that failed or ended, the link
\* of that attempt is released: no client is open and no notification handler
\* is subscribed.
C24_OneLink ==
    /\ open_links \in {0, 1}
    /\ NoAttempt => open_links = 0 /\ ~is_connected /\ ~subscribed

\* a scan that follows a connection which got as far as polling
C24_Witness ==
    /\ pc = "scan"
    /\ \E j \in 1..Len(POLL_SEQUENCE) : last_write = POLL_SEQUENCE[j]
    /\ open_links = 0

\* the poll loop of the session is running
Polling == pc \in {"poll_check", "poll", "poll_sleep"}

\* the checkpoint task exists and has neither ended nor been cancelled
SaverAlive == saver_pc \in {"sleep", "check"}

\* the checkpoint task takes a step
saver_step ==
    \/ saver_pc' # saver_pc /\ pc' = pc
    \/ checkpoint_file' # checkpoint_file
    \/ save_report' # save_report
    \/ save_error' # save_error

\* C25: whenever the session is in Polling (and no stop has been requested)
\* one checkpoint task is alive; a checkpoint task is created only when none
\* is alive, and none is alive once the link of its connection is released,
\* across any number of reconnects.
C25_OneCheckpointTask ==
    /\ (Polling /\ ~stop_event) => SaverAlive
    /\ open_links = 0 => ~SaverAlive
    /\ (pc \in {"subscribe", "init"}) => ~SaverAlive

\* The steps of the checkpoint task leave the link and the record of the
\* commands written as they are.
SaverNeverWrites ==
    [][saver_step /\ pc' = pc => UNCHANGED <<link_vars, write_vars>>]_vars

\* No checkpoint task outlives its connection or is created beside another, in
\* both clients.
NoSaverOutsideConnection ==
    /\ open_links = 0 => ~SaverAlive
    /\ (pc \in {"subscribe", "init"}) => ~SaverAlive

\* The tui keeps its checkpoint task alive for as long as it polls.
TuiOneCheckpointTask == app = "tui" => C25_OneCheckpointTask

---------------------------------------------------------------------------
(* The stored order of the snapshots, the wall-clock fallback, deletions *)

\* how many times record x occurs in sequence q
occurrences(q, x) == Cardinality({k \in DOMAIN q : q[k] = x})

\* q and r hold the same snapshots, each as many times, in any order
same_snapshots(q, r) ==
    /\ Len(q) = Len(r)
    /\ \A k \in DOMAIN q : occurrences(q, q[k]) = occurrences(r, q[k])

\* the run of the turn was handed to the export (whatever the export answered)
export_decided(k) == turns[k].outcome \in {"uploaded", "upload_failed"}

\* the turns whose batch was reconstructed
walked == {k \in DOMAIN turns : ~turns[k].run.raised}

same_totals(k, l) ==
    /\ turns[k].run.total_distance = turns[l].run.total_distance
    /\ turns[k].run.total_duration = turns[l].run.total_duration
    /\ export_decided(k) <=> export_decided(l)

distinct_timestamps(q) ==
    \A i, j \in DOMAIN q : i # j => q[i].timestamp # q[j].timestamp

\* C26: two batches that hold the same snapshots in different stored orders,
\* snapshots of equal timestamps included, are reconstructed to the same total
\* distance and duration and get the same export decision.
C26_OrderIndependent ==
    \A k, l \in walked :
        same_snapshots(batch(k), batch(l)) => same_totals(k, l)

\* The sort is by timestamp only and stable: the stored order is forgotten
\* when the timestamps differ, and kept among snapshots of equal timestamp.
OrderIndependentWhenDistinct ==
    \A k, l \in walked :
        ( /\ same_snapshots(batch(k), batch(l))
          /\ distinct_timestamps(batch(k)) ) => same_totals(k, l)

\* two stored orders of the same snapshots with distinct timestamps have been
\* reconstructed
DistinctOrdersWalked ==
    \E k, l \in walked :
        /\ batch(k) = NewestFirst
        /\ batch(l) # batch(k)
        /\ same_snapshots(batch(k), batch(l))

\* the sum of the positive elapsed-time deltas of the pairs 2..i of a sorted
\* batch that are not reset pairs
RECURSIVE accumulated_duration(_, _)
accumulated_duration(points, i) ==
    IF i < 2 THEN 0
    ELSE LET sec_delta == points[i].seconds_total - points[i - 1].seconds_total
         IN accumulated_duration(points, i - 1)
            + (IF ~pair_reset(points, i) /\ sec_delta > 0 THEN sec_delta ELSE 0)

\* the earliest and the latest timestamp of a batch
first_timestamp(points) ==
    CHOOSE t \in {points[k].timestamp : k \in DOMAIN points} :
        \A k \in DOMAIN points : t <= points[k].timestamp

last_timestamp(points) ==
    CHOOSE t \in {points[k].timestamp : k \in DOMAIN points} :
        \A k \in DOMAIN points : points[k].timestamp <= t

\* the turns that walked a batch of snapshots holding every key
walked_whole == {k \in walked : whole(batch(k))}

\* C27: when the duration accumulated over the pairs of a batch is zero, the
\* duration of the run is the last timestamp minus the first, in sorted
\* order; when it is positive, the duration of the run is the accumulated
\* duration whatever the timestamps are.  It is the duration handed to the
\* export.
C27_WallClockFallback ==
    /\ \A k \in walked_whole :
          LET points == sort_by_timestamp(batch(k))
              accumulated == accumulated_duration(points, Len(points))
          IN /\ accumulated >= 0
             /\ accumulated = 0 =>
                   turns[k].run.total_duration =
                       last_timestamp(batch(k)) - first_timestamp(batch(k))
             /\ accumulated > 0 => turns[k].run.total_duration = accumulated
    /\ \A u \in DOMAIN uploads : \E k \in walked :
          /\ turns[k].file = uploads[u].file
          /\ turns[k].pass = uploads[u].pass
          /\ uploads[u].duration_seconds = turns[k].run.total_duration

\* a batch stored newest first whose elapsed seconds stand still is exported
\* with the 30 s between its timestamps, and a batch whose elapsed seconds
\* advance by 360 within 30 s of wall clock with 360 s
C27_Witness ==
    /\ \E u \in DOMAIN uploads : \E k \in DOMAIN turns :
          /\ turns[k].content = StoppedClockNewestFirst
          /\ turns[k].file = uploads[u].file
          /\ uploads[u].ok
          /\ uploads[u].duration_seconds = 30
    /\ \E k \in DOMAIN turns :
          /\ turns[k].content = NewestFirst
          /\ turns[k].run.total_duration = 360

\* the sum of the positive distance deltas (metres) of the pairs 2..i of a
\* sorted batch that are not reset pairs
RECURSIVE accumulated_distance(_, _)
accumulated_distance(points, i) ==
    IF i < 2 THEN 0
    ELSE LET dist_delta == points[i].distance_km - points[i - 1].distance_km
         IN accumulated_distance(points, i - 1)
            + (IF ~pair_reset(points, i) /\ dist_delta > 0 THEN dist_delta ELSE 0)

\* the file holds no snapshot: no document, or documents that are neither a
\* list nor a mapping
no_snapshots(content) ==
    \A k \in DOMAIN content : has_key(content[k], "scalar")

\* the snapshots of the file hold every key and are reconstructed to a run of
\* at most 0.01 km
at_most_threshold(content) ==
    /\ ~partial_tail(content) \/ Last(content).cut = "value"
    /\ whole(flatten(content))
    /\ LET points == sort_by_timestamp(flatten(content))
       IN accumulated_distance(points, Len(points)) <= 10

\* this step calls the export for file f and the call returns successfully
exported_now(f) ==
    /\ Len(uploads') = Len(uploads) + 1
    /\ Last(uploads').file = f
    /\ Last(uploads').pass = passes
    /\ Last(uploads').ok

\* C28: over any passes and any mix of parse, reconstruction and upload
\* failures, a file is deleted only if it held no snapshots, or its
\* reconstructed total distance was at most 0.01 km, or the export call of its
\* run returned successfully in the same turn; a file is otherwise left with
\* its content.
C28_DeletionSafety ==
    [][\A f \in DOMAIN data_dir :
          IF f \in DOMAIN data_dir'
          THEN data_dir'[f] = data_dir[f]
          ELSE \/ no_snapshots(data_dir[f])
               \/ at_most_threshold(data_dir[f])
               \/ exported_now(f)]_vars

\* a file whose export failed in the first pass is kept, and deleted in the
\* second pass when its export succeeds; another file was deleted for holding
\* a run of at most 0.01 km or no snapshot
C28_Witness ==
    /\ \E k, l \in DOMAIN turns :
          /\ turns[k].file = turns[l].file
          /\ turns[k].pass = 1 /\ turns[k].outcome = "upload_failed"
          /\ turns[l].pass = 2 /\ turns[l].outcome = "uploaded"
          /\ turns[k].run.total_distance > 10
          /\ turns[k].file \notin DOMAIN data_dir
    /\ \E j \in DOMAIN turns :
          /\ turns[j].outcome \in {"short", "empty"}
          /\ turns[j].file \notin DOMAIN data_dir

\* a file that failed to parse or to reconstruct is kept over two passes
FailedFileKept ==
    \E k, l \in DOMAIN turns :
        /\ turns[k].file = turns[l].file
        /\ turns[k].pass = 1 /\ turns[k].outcome = "failed"
        /\ turns[l].pass = 2 /\ turns[l].outcome = "failed"
        /\ turns[k].file \in DOMAIN data_dir

====
